---- MODULE Spec2Model ----
(***************************************************************************)
(* Model of the cache refresh / retry / rate-limit engine and of the read  *)
(* path of crypto-data-server.py.                                          *)
(*                                                                         *)
(* Time is in whole seconds.  The clock advances when a request arrives    *)
(* and when fetch_crypto_data sleeps; a network call or a mirror query     *)
(* takes no time.  A request is handled in steps: do_GET, refresh_cache    *)
(* (staleness check, mirror restore, entry of fetch_crypto_data), one step *)
(* per iteration of the attempt loop, and the routing step that sends the  *)
(* response.  The response is an output and not part of the state:         *)
(* Response(t, path, find_raises) is what do_GET sends for a path in the   *)
(* state in which refresh_cache() has returned.                            *)
(***************************************************************************)
EXTENDS Integers, Sequences, FiniteSets, TLC

(* ---------------------------------------------------------------------- *)
(* Program constants                                                      *)
(* ---------------------------------------------------------------------- *)
CRYPTO_SYMBOLS == {"BTC", "ETH"}

CACHE_DURATION == 300

RATE_LIMIT_COOLDOWN == 300

DEFAULT_RETRY_ATTEMPTS == 5

MAX_BACKOFF_TIME == 30

RESTORE_WINDOW == 3600

LISTALL_WINDOW == 1800

(* ---------------------------------------------------------------------- *)
(* Bounds of the model                                                    *)
(* ---------------------------------------------------------------------- *)
MaxRetryAttempts == 6

MaxRefreshes == 2

MaxUpstreamCalls == 6

StartTime == 5000

RetryAfterSeconds == 60

\* RETRY_ATTEMPTS of the server run with concurrent request threads
ThreadRetryAttempts == 2

Threads == {1, 2}

Delays == {1, CACHE_DURATION - 1, CACHE_DURATION}

(* ---------------------------------------------------------------------- *)
(* Values of the upstream JSON: a field is absent, null or a number       *)
(* ---------------------------------------------------------------------- *)
Absent == <<"absent", 0>>

Null == <<"null", 0>>

Num(n) == <<"num", n>>

RawEntry(p, c, v, m) ==
    [price |-> p, percent_change_24h |-> c, volume_24h |-> v, market_cap |-> m]

FullEntry == RawEntry(Num(3000), Num(4), Num(5), Num(6))

EmptyDict == [x \in {} |-> 0]

DictMerge(d, e) == [x \in (DOMAIN d) \cup (DOMAIN e) |-> IF x \in DOMAIN e THEN e[x] ELSE d[x]]

DictRestrict(d, S) == [x \in (DOMAIN d) \cap S |-> d[x]]

(* the "data" member of a well-formed response: a mapping symbol -> entry *)
Payloads ==
    { EmptyDict,
      [s \in {"BTC"} |-> RawEntry(Num(50000), Num(25), Absent, Absent)],
      [s \in {"BTC", "ETH"} |->
          IF s = "BTC" THEN RawEntry(Num(60000), Num(25), Null, Num(9)) ELSE FullEntry],
      [s \in {"BTC", "ETH"} |->
          IF s = "BTC" THEN RawEntry(Null, Num(25), Num(7), Num(9)) ELSE FullEntry],
      [s \in {"BTC", "SHIB"} |->
          IF s = "BTC" THEN RawEntry(Absent, Num(25), Absent, Absent) ELSE FullEntry] }

(* ---------------------------------------------------------------------- *)
(* process_crypto_data: normalisation of one upstream entry               *)
(* ---------------------------------------------------------------------- *)
\* quote.get(k) followed by "float(x) if x is not None else 0"
FloatOrZero(v) == IF v[1] = "num" THEN v[2] ELSE 0

\* "if not quote or 'price' not in quote: continue"
HasPrice(e) == e.price[1] # "absent"

\* a slip that crosses two fields of the stored record
coin_data_crossed(symbol, e, ts) ==
    [symbol |-> symbol,
     price |-> FloatOrZero(e.price),
     change_percent_24h |-> FloatOrZero(e.percent_change_24h),
     volume |-> FloatOrZero(e.market_cap),
     market_cap |-> FloatOrZero(e.volume_24h),
     timestamp |-> ts]

coin_data(symbol, e, ts) ==
    [symbol |-> symbol,
     price |-> FloatOrZero(e.price),
     change_percent_24h |-> FloatOrZero(e.percent_change_24h),
     volume |-> FloatOrZero(e.volume_24h),
     market_cap |-> FloatOrZero(e.market_cap),
     timestamp |-> ts]

\* the symbols of a payload that the loop of process_crypto_data stores
StoredSymbols(data) == { s \in (DOMAIN data) \cap CRYPTO_SYMBOLS : HasPrice(data[s]) }

\* what fetch_crypto_data returns: None, or the list process_crypto_data built
NoneResult == [none |-> TRUE, list |-> {}]

ListResult(symbols) == [none |-> FALSE, list |-> symbols]

\* "return result is not None" of refresh_cache
is_not_None(result) == ~result.none

\* a slip that writes the sweep but forgets "return processed_data"
process_crypto_data_no_return(data, ts, cache, mirror, mongo, write_raises) ==
    LET stored == StoredSymbols(data)
        recs == [s \in stored |-> coin_data(s, data[s], ts)]
    IN  [crypto_cache |-> DictMerge(cache, recs),
         current_prices |-> IF mongo
                            THEN DictMerge(mirror, DictRestrict(recs, stored \ write_raises))
                            ELSE mirror,
         last_cache_update |-> ts,
         result |-> NoneResult]

\* a slip that puts the in-memory upsert inside the try of the mirror write
process_crypto_data_mirror_first(data, ts, cache, mirror, mongo, write_raises) ==
    LET stored == StoredSymbols(data)
        recs == [s \in stored |-> coin_data(s, data[s], ts)]
    IN  [crypto_cache |-> DictMerge(cache, DictRestrict(recs, stored \ write_raises)),
         current_prices |-> IF mongo
                            THEN DictMerge(mirror, DictRestrict(recs, stored \ write_raises))
                            ELSE mirror,
         last_cache_update |-> ts,
         result |-> ListResult(stored)]

\* process_crypto_data: the writes of the loop over data.items(), the unconditional
\* "last_cache_update = time.time()" and the returned list.  mongo is USE_MONGODB;
\* write_raises are the symbols whose current_prices.update_one raises
process_crypto_data(data, ts, cache, mirror, mongo, write_raises) ==
    LET stored == StoredSymbols(data)
        recs == [s \in stored |-> coin_data(s, data[s], ts)]
    IN  [crypto_cache |-> DictMerge(cache, recs),
         current_prices |-> IF mongo
                            THEN DictMerge(mirror, DictRestrict(recs, stored \ write_raises))
                            ELSE mirror,
         last_cache_update |-> ts,
         result |-> ListResult(stored)]

(* ---------------------------------------------------------------------- *)
(* fetch_crypto_data: backoff before attempt n                            *)
(* ---------------------------------------------------------------------- *)
Min(a, b) == IF a < b THEN a ELSE b

\* a slip that leaves out the cap
sleep_time_uncapped(attempt) == IF attempt > 0 THEN 2 + 2^attempt ELSE 0

sleep_time(attempt) == IF attempt > 0 THEN Min(2 + 2^attempt, MAX_BACKOFF_TIME) ELSE 0

(* ---------------------------------------------------------------------- *)
(* State                                                                  *)
(* ---------------------------------------------------------------------- *)
VARIABLES
    now,                \* time.time() / datetime.now()
    crypto_cache,       \* dict symbol -> record
    last_cache_update,
    rate_limit_until,
    USE_MONGODB,        \* the mirror is enabled
    current_prices,     \* the mirror collection, unique index on symbol
    CMC_API_KEY,        \* TRUE when an API key is configured
    RETRY_ATTEMPTS,     \* int(os.environ.get('RETRY_ATTEMPTS', 5))
    th,                 \* per request thread: position and locals
    prev,               \* summary of the last completed refresh_cache() call
    nref,               \* number of refresh_cache() calls started so far
    ncalls,             \* number of upstream network calls made so far
    twin,               \* the same program started without the mirror (USE_MONGODB False)
    srv,                \* run_server of the crypto server: the bind loop and the port
    stock,              \* a stock server process: caches, mirror collection, position
    td                  \* the TwelvedataManager of stock-data-server-mongodb

config == <<USE_MONGODB, CMC_API_KEY, RETRY_ATTEMPTS>>

store == <<crypto_cache, last_cache_update, rate_limit_until, current_prices>>

vars == <<now, crypto_cache, last_cache_update, rate_limit_until, USE_MONGODB,
          current_prices, CMC_API_KEY, RETRY_ATTEMPTS, th, prev, nref, ncalls, twin,
          srv, stock, td>>

(* ---------------------------------------------------------------------- *)
(* The other processes of the repository: run_server of the crypto server *)
(* and the stock servers. The request-level specifications start with the *)
(* crypto server already serving and no stock server running.             *)
(* ---------------------------------------------------------------------- *)
PORT == 3003

MAX_PORT_ATTEMPTS == 5

\* the crypto server serves on its first port
ServerUp ==
    [pc |-> "serving", attempt |-> 1, port |-> PORT,
     log |-> <<[port |-> PORT, outcome |-> "bound"]>>]

\* no stock server is running
StockDown ==
    [pc |-> "down", server |-> "none", mongo_client |-> FALSE,
     stock_cache |-> EmptyDict, crypto_cache |-> EmptyDict, last_cache_update |-> 0,
     current_collection |-> EmptyDict, historical_collection |-> 0,
     i |-> 0, caller |-> "none", before |-> [stock |-> EmptyDict, crypto |-> EmptyDict],
     fetched |-> {}, written |-> {}, failed |-> {},
     nrefresh |-> 0, nreq |-> 0, results |-> <<>>]

\* twelvedata_enabled is false: td_manager is None
NoManager ==
    [pc |-> "none", enabled |-> FALSE, connected |-> FALSE, error_count |-> 0,
     depth |-> 0, retries |-> 0, events |-> 0, last_prices |-> EmptyDict]

outside == <<srv, stock, td>>

Alone == srv = ServerUp /\ stock = StockDown /\ td = NoManager


(* ---------------------------------------------------------------------- *)
(* Requests, upstream outcomes, thread locals                             *)
(* ---------------------------------------------------------------------- *)
\* the symbols whose mirror write raises during one sweep
MirrorWriteFailures == { {}, {"BTC"} }

\* the names the program knows for the tracked symbols
CRYPTO_NAME_MAP == [s \in CRYPTO_SYMBOLS |-> IF s = "BTC" THEN "Bitcoin" ELSE "Ethereum"]

LookupArgs == {"btc", "ETH", "bitcoin", "SHIB"}

Paths ==
    { <<"/health", "">>, <<"/api/crypto", "">>, <<"/api/prices", "">>,
      <<"/api/cache/refresh", "">>, <<"/favicon.ico", "">> }
    \cup { <<"/api/crypto/", a>> : a \in LookupArgs }

\* str.upper() on the arguments the model sends
Upper(a) ==
    CASE a = "btc" -> "BTC"
      [] a = "eth" -> "ETH"
      [] a = "bitcoin" -> "BITCOIN"
      [] a = "Bitcoin" -> "BITCOIN"
      [] a = "Ethereum" -> "ETHEREUM"
      [] OTHER -> a

\* the Retry-After header of a 429 answer: absent, an integer, or a non-integer (HTTP date)
RetryAfterHeaders == { Absent, Num(RetryAfterSeconds), <<"date", 0>> }

RetriedKinds == {"http_error", "network_error", "malformed"}

ReturnedKinds == {"error_envelope", "no_status", "no_data"}

Outcome(k, h, d) == [kind |-> k, retry_after |-> h, data |-> d]

Outcomes ==
    { Outcome(k, Absent, EmptyDict) : k \in RetriedKinds \cup ReturnedKinds }
    \cup { Outcome("429", h, EmptyDict) : h \in RetryAfterHeaders }
    \cup { Outcome("ok", Absent, p) : p \in Payloads }

Class(kind) ==
    CASE kind = "429" -> "rate_limited"
      [] kind \in RetriedKinds -> "transient"
      [] kind \in ReturnedKinds -> "api_error"
      [] OTHER -> "ok"

NoEntry == [time |-> 0, cache |-> EmptyDict, lcu |-> 0, rlu |-> 0, mirror |-> EmptyDict]

IdleThread ==
    [pc |-> "idle", forced |-> FALSE,
     attempt |-> 0, calls |-> 0, sleeps |-> <<>>, seen |-> {},
     ret |-> FALSE, how |-> "none", entry |-> NoEntry, mongo_reads |-> 0,
     data |-> EmptyDict, stored |-> {}, raised |-> {},
     base |-> EmptyDict, records |-> EmptyDict]

NoPrev == [valid |-> FALSE, entered |-> 0, finished |-> 0, calls |-> 0,
           ret |-> FALSE, how |-> "none", lcu |-> 0]

\* the globals and the request position of the program running without the mirror
InitTwin ==
    [crypto_cache |-> EmptyDict, last_cache_update |-> 0, rate_limit_until |-> 0,
     pc |-> "idle", attempt |-> 0, calls |-> 0, ret |-> FALSE, how |-> "none"]

Resp(status, kind, tier, body, retry_after, cache_status) ==
    [status |-> status, kind |-> kind, tier |-> tier, body |-> body,
     retry_after |-> retry_after, cache_status |-> cache_status]

\* current_prices as an earlier run of the same program can have left it: empty, or
\* BTC written less than an hour ago (but more than 30 minutes) and ETH before that
InitMirrors ==
    { EmptyDict,
      [s \in CRYPTO_SYMBOLS |->
          coin_data(s, RawEntry(Num(40000), Num(1), Num(2), Num(3)),
                    IF s = "BTC" THEN StartTime - 2000 ELSE StartTime - 4000)] }

Init ==
    /\ now = StartTime
    /\ crypto_cache = EmptyDict
    /\ last_cache_update = 0
    /\ rate_limit_until = 0
    /\ USE_MONGODB \in BOOLEAN
    /\ current_prices \in (IF USE_MONGODB THEN InitMirrors ELSE {EmptyDict})
    /\ CMC_API_KEY \in BOOLEAN
    /\ RETRY_ATTEMPTS = (IF USE_MONGODB THEN DEFAULT_RETRY_ATTEMPTS ELSE MaxRetryAttempts)
    /\ th = [t \in Threads |-> IdleThread]
    /\ prev = NoPrev
    /\ nref = 0
    /\ ncalls = 0
    /\ twin = InitTwin
    /\ Alone

(* ---------------------------------------------------------------------- *)
(* do_GET: a request arrives d seconds after the previous step            *)
(* ---------------------------------------------------------------------- *)
do_GET(t, d) ==
    /\ th[t].pc = "idle"
    /\ nref < MaxRefreshes
    /\ now' = now + d
    /\ nref' = nref + 1
    /\ th' = [th EXCEPT ![t] = [IdleThread EXCEPT !.pc = "refresh"]]
    /\ UNCHANGED <<store, config, prev, ncalls>>

(* ---------------------------------------------------------------------- *)
(* refresh_cache up to the attempt loop of fetch_crypto_data              *)
(* ---------------------------------------------------------------------- *)
\* a slip that leaves out the cutoff of the query
RecentRecords_any_age(window) == DOMAIN current_prices

RecentRecords(window) ==
    { s \in DOMAIN current_prices : current_prices[s].timestamp >= now - window }

\* a slip that takes the duration in minutes where the clock counts seconds
IsFresh_minutes == (now - last_cache_update) * 60 < CACHE_DURATION

\* a slip that makes every read refetch
IsFresh_never == FALSE

IsFresh == now - last_cache_update < CACHE_DURATION

\* a slip that never lets a recorded cooldown end
InCooldown_sticky == rate_limit_until > 0

\* a slip that leaves out the cooldown check at the entry of fetch_crypto_data
InCooldown_never == FALSE

InCooldown == now < rate_limit_until

refresh_cache(t, find_raises) ==
    /\ th[t].pc = "refresh"
    /\ LET snap == [time |-> now, cache |-> crypto_cache, lcu |-> last_cache_update,
                    rlu |-> rate_limit_until, mirror |-> current_prices]
           recent == RecentRecords(RESTORE_WINDOW)
           reads == IF USE_MONGODB THEN 1 ELSE 0
           Return(r, h, k) ==
               [th EXCEPT ![t] = [@ EXCEPT !.pc = "route", !.ret = r, !.how = h,
                                           !.entry = snap, !.mongo_reads = k]]
       IN  IF IsFresh
           THEN /\ ~find_raises
                /\ th' = Return(TRUE, "fresh", 0)
                /\ UNCHANGED store
           ELSE IF USE_MONGODB /\ ~find_raises /\ recent # {}
           THEN /\ crypto_cache' = DictMerge(crypto_cache, DictRestrict(current_prices, recent))
                /\ last_cache_update' = now
                /\ th' = Return(TRUE, "restored", reads)
                /\ UNCHANGED <<rate_limit_until, current_prices>>
           ELSE /\ (find_raises => USE_MONGODB)
                /\ th' = IF InCooldown THEN Return(is_not_None(NoneResult), "cooldown", reads)
                         ELSE IF ~CMC_API_KEY
                         THEN Return(is_not_None(NoneResult), "nokey", reads)
                         ELSE [th EXCEPT ![t] = [@ EXCEPT !.pc = "attempt", !.attempt = 0,
                                                          !.entry = snap, !.mongo_reads = reads]]
                /\ UNCHANGED store
    /\ UNCHANGED <<now, config, prev, nref, ncalls>>

(* ---------------------------------------------------------------------- *)
(* one iteration of the attempt loop of fetch_crypto_data, with           *)
(* process_crypto_data when the answer is well formed                     *)
(* ---------------------------------------------------------------------- *)
\* "rate_limit_until = time.time() + int(headers.get('Retry-After', RATE_LIMIT_COOLDOWN))";
\* int() of a non-integer header raises and the assignment does not happen
RateLimitDeadline(header, t_now, old) ==
    CASE header[1] = "absent" -> t_now + RATE_LIMIT_COOLDOWN
      [] header[1] = "num" -> t_now + header[2]
      [] OTHER -> old

\* a slip that leaves out the except clauses of the loop: the failure leaves
\* fetch_crypto_data and refresh_cache as an exception
NextAttempt_uncaught(l, n) ==
    [l EXCEPT !.attempt = n + 1, !.pc = "raised", !.how = "exception"]

\* a slip that runs the loop once more
NextAttempt_one_more(l, n) ==
    IF n + 1 <= RETRY_ATTEMPTS
    THEN [l EXCEPT !.attempt = n + 1]
    ELSE [l EXCEPT !.attempt = n + 1, !.pc = "route", !.ret = is_not_None(NoneResult),
                   !.how = "exhausted"]

\* the end of an iteration that neither returned nor succeeded
NextAttempt(l, n) ==
    IF n + 1 < RETRY_ATTEMPTS
    THEN [l EXCEPT !.attempt = n + 1]
    ELSE [l EXCEPT !.attempt = n + 1, !.pc = "route", !.ret = is_not_None(NoneResult),
                   !.how = "exhausted"]

\* "continue" after a 429
After429(l, n) == NextAttempt(l, n)

fetch_attempt(t, oc, write_raises) ==
    /\ th[t].pc = "attempt"
    /\ ncalls < MaxUpstreamCalls
    /\ ncalls' = ncalls + 1
    /\ LET n == th[t].attempt
           slept == sleep_time(n)
           tcall == now + slept
           l == [th[t] EXCEPT !.calls = @ + 1,
                              !.sleeps = IF slept > 0 THEN Append(@, <<n, slept>>) ELSE @,
                              !.seen = @ \cup {Class(oc.kind)}]
           done == process_crypto_data(oc.data, tcall, crypto_cache, current_prices,
                                       USE_MONGODB, write_raises)
       IN  /\ now' = tcall
           /\ CASE oc.kind = "429" ->
                    /\ rate_limit_until' = RateLimitDeadline(oc.retry_after, tcall, rate_limit_until)
                    /\ th' = [th EXCEPT ![t] = After429(l, n)]
                    /\ UNCHANGED <<crypto_cache, last_cache_update, current_prices>>
                [] oc.kind \in RetriedKinds ->
                    /\ th' = [th EXCEPT ![t] = NextAttempt(l, n)]
                    /\ UNCHANGED store
                [] oc.kind \in ReturnedKinds ->
                    /\ th' = [th EXCEPT ![t] = [l EXCEPT !.pc = "route",
                                                         !.ret = is_not_None(NoneResult),
                                                         !.how = "api_error"]]
                    /\ UNCHANGED store
                [] OTHER ->
                    /\ write_raises \subseteq (IF USE_MONGODB THEN StoredSymbols(oc.data) ELSE {})
                    /\ crypto_cache' = done.crypto_cache
                    /\ current_prices' = done.current_prices
                    /\ last_cache_update' = done.last_cache_update
                    /\ th' = [th EXCEPT ![t] = [l EXCEPT !.pc = "route",
                                                         !.ret = is_not_None(done.result),
                                                         !.how = "processed",
                                                         !.data = oc.data,
                                                         !.stored = done.result.list,
                                                         !.raised = write_raises]]
                    /\ UNCHANGED rate_limit_until
    /\ (oc.kind # "ok" => write_raises = {})
    /\ UNCHANGED <<config, prev, nref>>


(* ---------------------------------------------------------------------- *)
(* do_GET after refresh_cache() has returned: routing and the response    *)
(* ---------------------------------------------------------------------- *)
Summary(t) ==
    [valid |-> TRUE, entered |-> th[t].entry.time, finished |-> now,
     calls |-> th[t].calls, ret |-> th[t].ret, how |-> th[t].how,
     lcu |-> last_cache_update]

Max(a, b) == IF a > b THEN a ELSE b

\* a slip that answers an empty list where there is nothing to serve
get_all_crypto_empty_ok(find_raises) ==
    LET recent == RecentRecords(LISTALL_WINDOW)
    IN  IF USE_MONGODB /\ ~find_raises /\ recent # {}
        THEN Resp(200, "list", "mongo", DictRestrict(current_prices, recent), 0, FALSE)
        ELSE IF DOMAIN crypto_cache # {}
        THEN Resp(200, "list", "memory", crypto_cache, 0, FALSE)
        ELSE IF InCooldown
        THEN Resp(429, "rate_limited", "none", EmptyDict, rate_limit_until - now, FALSE)
        ELSE Resp(200, "list", "memory", EmptyDict, 0, FALSE)

\* a slip that looks at the cooldown before the in-memory cache
get_all_crypto_cooldown_first(find_raises) ==
    LET recent == RecentRecords(LISTALL_WINDOW)
    IN  IF USE_MONGODB /\ ~find_raises /\ recent # {}
        THEN Resp(200, "list", "mongo", DictRestrict(current_prices, recent), 0, FALSE)
        ELSE IF InCooldown
        THEN Resp(429, "rate_limited", "none", EmptyDict, rate_limit_until - now, FALSE)
        ELSE IF DOMAIN crypto_cache # {}
        THEN Resp(200, "list", "memory", crypto_cache, 0, FALSE)
        ELSE Resp(503, "unavailable", "none", EmptyDict, 0, FALSE)

\* a slip that completes the mirror's rows with the in-memory records
get_all_crypto_merged(find_raises) ==
    LET recent == RecentRecords(LISTALL_WINDOW)
    IN  IF USE_MONGODB /\ ~find_raises /\ recent # {}
        THEN Resp(200, "list", "mongo",
                  DictMerge(crypto_cache, DictRestrict(current_prices, recent)), 0, FALSE)
        ELSE IF DOMAIN crypto_cache # {}
        THEN Resp(200, "list", "memory", crypto_cache, 0, FALSE)
        ELSE IF InCooldown
        THEN Resp(429, "rate_limited", "none", EmptyDict, rate_limit_until - now, FALSE)
        ELSE Resp(503, "unavailable", "none", EmptyDict, 0, FALSE)

\* _get_all_crypto
get_all_crypto(find_raises) ==
    LET recent == RecentRecords(LISTALL_WINDOW)
    IN  IF USE_MONGODB /\ ~find_raises /\ recent # {}
        THEN Resp(200, "list", "mongo", DictRestrict(current_prices, recent), 0, FALSE)
        ELSE IF DOMAIN crypto_cache # {}
        THEN Resp(200, "list", "memory", crypto_cache, 0, FALSE)
        ELSE IF InCooldown
        THEN Resp(429, "rate_limited", "none", EmptyDict, rate_limit_until - now, FALSE)
        ELSE Resp(503, "unavailable", "none", EmptyDict, 0, FALSE)

\* a slip that lets the exception of current_prices.find_one reach do_GET
get_specific_crypto_mirror_fatal(arg, find_raises) ==
    LET crypto_symbol == Upper(arg)
    IN  IF crypto_symbol \notin CRYPTO_SYMBOLS
        THEN Resp(404, "unknown_symbol", "none", EmptyDict, 0, FALSE)
        ELSE IF USE_MONGODB /\ find_raises
        THEN Resp(500, "internal_error", "none", EmptyDict, 0, FALSE)
        ELSE IF USE_MONGODB /\ crypto_symbol \in DOMAIN current_prices
        THEN Resp(200, "record", "mongo", DictRestrict(current_prices, {crypto_symbol}), 0, FALSE)
        ELSE IF crypto_symbol \in DOMAIN crypto_cache
        THEN Resp(200, "record", "memory", DictRestrict(crypto_cache, {crypto_symbol}), 0, FALSE)
        ELSE Resp(404, "no_data", "none", EmptyDict, 0, FALSE)

\* _get_specific_crypto
get_specific_crypto(arg, find_raises) ==
    LET crypto_symbol == Upper(arg)
    IN  IF crypto_symbol \notin CRYPTO_SYMBOLS
        THEN Resp(404, "unknown_symbol", "none", EmptyDict, 0, FALSE)
        ELSE IF USE_MONGODB /\ ~find_raises /\ crypto_symbol \in DOMAIN current_prices
        THEN Resp(200, "record", "mongo", DictRestrict(current_prices, {crypto_symbol}), 0, FALSE)
        ELSE IF crypto_symbol \in DOMAIN crypto_cache
        THEN Resp(200, "record", "memory", DictRestrict(crypto_cache, {crypto_symbol}), 0, FALSE)
        ELSE Resp(404, "no_data", "none", EmptyDict, 0, FALSE)

\* the forced branch of do_GET: "last_cache_update = 0; success = refresh_cache()"
force_refresh(t) ==
    /\ th[t].pc = "route"
    /\ ~th[t].forced
    /\ nref < MaxRefreshes
    /\ nref' = nref + 1
    /\ last_cache_update' = 0
    /\ prev' = Summary(t)
    /\ th' = [th EXCEPT ![t] = [IdleThread EXCEPT !.pc = "refresh", !.forced = TRUE]]
    /\ UNCHANGED <<now, crypto_cache, rate_limit_until, current_prices, config, ncalls>>

\* a slip that leaves out max(0, ...)
health_signed(t) ==
    Resp(200, "health", "none", EmptyDict, rate_limit_until - now, th[t].ret)

\* the response of GET /health
health(t) ==
    Resp(200, "health", "none", EmptyDict, Max(0, rate_limit_until - now), th[t].ret)

\* the response of the forced branch
cache_refresh(t) ==
    Resp(200, IF th[t].ret THEN "refresh_ok" ELSE "refresh_error", "none", EmptyDict, 0, th[t].ret)

\* the response do_GET sends for a path, once refresh_cache() has returned
Response(t, path, find_raises) ==
    CASE path[1] = "/health" -> health(t)
      [] path[1] \in {"/api/crypto", "/api/prices"} -> get_all_crypto(find_raises)
      [] path[1] = "/api/crypto/" -> get_specific_crypto(Upper(path[2]), find_raises)
      [] path[1] = "/api/cache/refresh" -> cache_refresh(t)
      [] OTHER -> Resp(404, "not_found", "none", EmptyDict, 0, FALSE)

\* the end of do_GET: the response is sent and the request thread ends
respond(t) ==
    /\ th[t].pc = "route"
    /\ prev' = Summary(t)
    /\ th' = [th EXCEPT ![t] = IdleThread]
    /\ UNCHANGED <<now, store, config, nref, ncalls>>

(* ---------------------------------------------------------------------- *)
(* The server handling one request at a time                              *)
(* ---------------------------------------------------------------------- *)
AllIdle == \A t \in Threads : th[t].pc = "idle"

\* the first request arrives one second after the start (StartTime is arbitrary);
\* each later one some delay after the previous response
Request ==
    /\ AllIdle
    /\ \E d \in Delays : (prev.valid \/ d = 1) /\ do_GET(1, d)
    /\ UNCHANGED <<twin, outside>>

Refresh ==
    /\ \E t \in Threads, find_raises \in BOOLEAN : refresh_cache(t, find_raises)
    /\ UNCHANGED <<twin, outside>>

Attempt ==
    /\ \E t \in Threads, oc \in Outcomes, write_raises \in MirrorWriteFailures :
          fetch_attempt(t, oc, write_raises)
    /\ UNCHANGED <<twin, outside>>

Force ==
    /\ \E t \in Threads : force_refresh(t)
    /\ UNCHANGED <<twin, outside>>

Respond ==
    /\ \E t \in Threads : respond(t)
    /\ UNCHANGED <<twin, outside>>

Next == Request \/ Refresh \/ Attempt \/ Force \/ Respond

Spec == Init /\ [][Next]_vars

(* ---------------------------------------------------------------------- *)
(* The program with a mirror that connects at start and then raises on    *)
(* every operation, run side by side with the program without the mirror: *)
(* both get the same requests, the same clock and the same upstream       *)
(* answers.  twin holds the globals of the second; it takes the branches  *)
(* the code takes when USE_MONGODB is False.                              *)
(* ---------------------------------------------------------------------- *)
\* do_GET entering refresh_cache()
twin_do_GET == [twin EXCEPT !.pc = "refresh"]

\* refresh_cache with "USE_MONGODB and restore_from_mongodb()" False, up to the
\* entry checks of fetch_crypto_data
twin_refresh_cache ==
    LET Return(r, h) == [twin EXCEPT !.pc = "route", !.ret = r, !.how = h]
    IN  IF now - twin.last_cache_update < CACHE_DURATION THEN Return(TRUE, "fresh")
        ELSE IF now < twin.rate_limit_until THEN Return(is_not_None(NoneResult), "cooldown")
        ELSE IF ~CMC_API_KEY THEN Return(is_not_None(NoneResult), "nokey")
        ELSE [twin EXCEPT !.pc = "attempt", !.attempt = 0]

\* one iteration of the attempt loop; process_crypto_data skips "if USE_MONGODB:"
twin_fetch_attempt(oc) ==
    LET n == twin.attempt
        tcall == now + sleep_time(n)
        l == [twin EXCEPT !.calls = @ + 1]
        done == process_crypto_data(oc.data, tcall, twin.crypto_cache, EmptyDict, FALSE, {})
    IN  CASE oc.kind = "429" ->
                [NextAttempt(l, n) EXCEPT
                    !.rate_limit_until = RateLimitDeadline(oc.retry_after, tcall, @)]
          [] oc.kind \in RetriedKinds -> NextAttempt(l, n)
          [] oc.kind \in ReturnedKinds ->
                [l EXCEPT !.pc = "route", !.ret = is_not_None(NoneResult), !.how = "api_error"]
          [] OTHER ->
                [l EXCEPT !.pc = "route", !.ret = is_not_None(done.result),
                          !.how = "processed",
                          !.crypto_cache = done.crypto_cache,
                          !.last_cache_update = done.last_cache_update]

\* the forced branch of do_GET
twin_force_refresh ==
    [twin EXCEPT !.last_cache_update = 0, !.pc = "refresh",
                 !.attempt = 0, !.calls = 0, !.ret = FALSE, !.how = "none"]

\* the end of do_GET
twin_respond ==
    [twin EXCEPT !.pc = "idle", !.attempt = 0, !.calls = 0, !.ret = FALSE, !.how = "none"]

\* the response of do_GET when every "if USE_MONGODB:" block is skipped
twin_Response(path) ==
    LET symbol == Upper(Upper(path[2]))
        limited == now < twin.rate_limit_until
    IN  CASE path[1] = "/health" ->
                Resp(200, "health", "none", EmptyDict,
                     Max(0, twin.rate_limit_until - now), twin.ret)
          [] path[1] \in {"/api/crypto", "/api/prices"} ->
                IF DOMAIN twin.crypto_cache # {}
                THEN Resp(200, "list", "memory", twin.crypto_cache, 0, FALSE)
                ELSE IF limited
                THEN Resp(429, "rate_limited", "none", EmptyDict,
                          twin.rate_limit_until - now, FALSE)
                ELSE Resp(503, "unavailable", "none", EmptyDict, 0, FALSE)
          [] path[1] = "/api/crypto/" ->
                IF symbol \notin CRYPTO_SYMBOLS
                THEN Resp(404, "unknown_symbol", "none", EmptyDict, 0, FALSE)
                ELSE IF symbol \in DOMAIN twin.crypto_cache
                THEN Resp(200, "record", "memory",
                          DictRestrict(twin.crypto_cache, {symbol}), 0, FALSE)
                ELSE Resp(404, "no_data", "none", EmptyDict, 0, FALSE)
          [] path[1] = "/api/cache/refresh" ->
                Resp(200, IF twin.ret THEN "refresh_ok" ELSE "refresh_error", "none",
                     EmptyDict, 0, twin.ret)
          [] OTHER -> Resp(404, "not_found", "none", EmptyDict, 0, FALSE)

InitMirrorDown ==
    /\ now = StartTime
    /\ crypto_cache = EmptyDict
    /\ last_cache_update = 0
    /\ rate_limit_until = 0
    /\ USE_MONGODB = TRUE
    /\ current_prices \in InitMirrors
    /\ CMC_API_KEY \in BOOLEAN
    /\ RETRY_ATTEMPTS = DEFAULT_RETRY_ATTEMPTS
    /\ th = [t \in Threads |-> IdleThread]
    /\ prev = NoPrev
    /\ nref = 0
    /\ ncalls = 0
    /\ twin = InitTwin
    /\ Alone

RequestMirrorDown ==
    /\ AllIdle
    /\ \E d \in Delays : (prev.valid \/ d = 1) /\ do_GET(1, d)
    /\ twin' = twin_do_GET
    /\ UNCHANGED outside

\* current_prices.find raises whenever refresh_cache() gets to restore_from_mongodb()
RefreshMirrorDown ==
    /\ refresh_cache(1, ~IsFresh)
    /\ twin' = twin_refresh_cache
    /\ UNCHANGED outside

\* every current_prices.update_one of the sweep raises
AttemptMirrorDown ==
    \E oc \in Outcomes :
        /\ fetch_attempt(1, oc, IF oc.kind = "ok" THEN StoredSymbols(oc.data) ELSE {})
        /\ twin' = twin_fetch_attempt(oc)
        /\ UNCHANGED outside

ForceMirrorDown ==
    /\ force_refresh(1)
    /\ twin' = twin_force_refresh
    /\ UNCHANGED outside

RespondMirrorDown ==
    /\ respond(1)
    /\ twin' = twin_respond
    /\ UNCHANGED outside

NextMirrorDown ==
    \/ RequestMirrorDown
    \/ RefreshMirrorDown
    \/ AttemptMirrorDown
    \/ ForceMirrorDown
    \/ RespondMirrorDown

SpecMirrorDown == InitMirrorDown /\ [][NextMirrorDown]_vars

(* ---------------------------------------------------------------------- *)
(* The server as ThreadedHTTPServer runs it: one thread per request, the  *)
(* globals shared without a lock.  A sweep of process_crypto_data and a   *)
(* restore write crypto_cache one record per loop iteration, and other    *)
(* threads run between the iterations.                                    *)
(* ---------------------------------------------------------------------- *)
\* the upstream answers of this specification: a 429 without header, an error
\* envelope, and two answers carrying both symbols
ThreadOutcomes ==
    { oc \in Outcomes :
         \/ oc.kind = "429" /\ oc.retry_after = Absent
         \/ oc.kind = "error_envelope"
         \/ oc.kind = "ok" /\ DOMAIN oc.data = {"BTC", "ETH"} }

\* a request arrives in the same second as the previous step or one second later
ThreadDelays == {0, 1}

\* a slip that updates the price of the record in place and keeps its other fields
upsert_price_in_place(d, s, rec) ==
    IF s \in DOMAIN d
    THEN [d EXCEPT ![s] = [@ EXCEPT !.price = rec.price, !.timestamp = rec.timestamp]]
    ELSE [x \in (DOMAIN d) \cup {s} |-> IF x = s THEN rec ELSE d[x]]

\* a slip that keeps the record a symbol already has
upsert_keep_first(d, s, rec) ==
    IF s \in DOMAIN d THEN d ELSE [x \in (DOMAIN d) \cup {s} |-> IF x = s THEN rec ELSE d[x]]

\* "crypto_cache[symbol] = coin_data", "crypto_cache[symbol] = record", and update_one
\* with upsert=True under the unique index on symbol
upsert(d, s, rec) == [x \in (DOMAIN d) \cup {s} |-> IF x = s THEN rec ELSE d[x]]

InitThreads ==
    /\ now = StartTime
    /\ crypto_cache = EmptyDict
    /\ last_cache_update = 0
    /\ rate_limit_until = 0
    /\ USE_MONGODB \in BOOLEAN
    /\ current_prices \in (IF USE_MONGODB THEN InitMirrors ELSE {EmptyDict})
    /\ CMC_API_KEY = TRUE
    /\ RETRY_ATTEMPTS = ThreadRetryAttempts
    /\ th = [t \in Threads |-> IdleThread]
    /\ prev = NoPrev
    /\ nref = 0
    /\ ncalls = 0
    /\ twin = InitTwin
    /\ Alone

\* restore_from_mongodb up to the loop: the query found rows of the last hour
begin_restore(t) ==
    /\ th[t].pc = "refresh"
    /\ ~IsFresh
    /\ USE_MONGODB
    /\ RecentRecords(RESTORE_WINDOW) # {}
    /\ th' = [th EXCEPT ![t] =
                 [@ EXCEPT !.pc = "restore",
                           !.entry = [time |-> now, cache |-> crypto_cache,
                                      lcu |-> last_cache_update, rlu |-> rate_limit_until,
                                      mirror |-> current_prices],
                           !.mongo_reads = 1,
                           !.base = crypto_cache,
                           !.records = DictRestrict(current_prices,
                                                    RecentRecords(RESTORE_WINDOW))]]
    /\ UNCHANGED <<now, store, config, prev, nref, ncalls>>

\* the attempt of fetch_crypto_data that gets a well-formed answer, up to the loop of
\* process_crypto_data: timestamp = datetime.now(), the records it is going to write
begin_sweep(t, oc) ==
    /\ th[t].pc = "attempt"
    /\ oc.kind = "ok"
    /\ ncalls < MaxUpstreamCalls
    /\ ncalls' = ncalls + 1
    /\ LET n == th[t].attempt
           slept == sleep_time(n)
           tcall == now + slept
       IN  /\ now' = tcall
           /\ th' = [th EXCEPT ![t] =
                        [@ EXCEPT !.pc = "sweep",
                                  !.calls = @ + 1,
                                  !.sleeps = IF slept > 0 THEN Append(@, <<n, slept>>) ELSE @,
                                  !.seen = @ \cup {Class(oc.kind)},
                                  !.data = oc.data,
                                  !.base = crypto_cache,
                                  !.records = [s \in StoredSymbols(oc.data) |->
                                                  coin_data(s, oc.data[s], tcall)]]]
    /\ UNCHANGED <<store, config, prev, nref>>

\* one iteration of the loop of process_crypto_data (mirror write, then memory) or
\* of the loop of restore_from_mongodb (memory only)
upsert_step(t, s, write_raises) ==
    /\ th[t].pc \in {"sweep", "restore"}
    /\ s \in (DOMAIN th[t].records) \ th[t].stored
    /\ (write_raises => th[t].pc = "sweep" /\ USE_MONGODB)
    /\ crypto_cache' = upsert(crypto_cache, s, th[t].records[s])
    /\ current_prices' = IF th[t].pc = "sweep" /\ USE_MONGODB /\ ~write_raises
                         THEN upsert(current_prices, s, th[t].records[s])
                         ELSE current_prices
    /\ th' = [th EXCEPT ![t] =
                 [@ EXCEPT !.stored = @ \cup {s},
                           !.raised = IF write_raises THEN @ \cup {s} ELSE @]]
    /\ UNCHANGED <<now, last_cache_update, rate_limit_until, config, prev, nref, ncalls>>

\* after the loop: "last_cache_update = time.time()" and the return to do_GET
finish(t) ==
    /\ th[t].pc \in {"sweep", "restore"}
    /\ th[t].stored = DOMAIN th[t].records
    /\ last_cache_update' = now
    /\ th' = [th EXCEPT ![t] =
                 [@ EXCEPT !.pc = "route",
                           !.ret = TRUE,
                           !.how = IF th[t].pc = "sweep" THEN "processed" ELSE "restored"]]
    /\ UNCHANGED <<now, crypto_cache, rate_limit_until, current_prices, config, prev,
                   nref, ncalls>>

\* the response is sent and the request thread ends; ThreadingMixIn starts a new
\* thread for every request
exit_thread(t) ==
    /\ th[t].pc = "route"
    /\ th' = [th EXCEPT ![t] = [IdleThread EXCEPT !.pc = "done"]]
    /\ UNCHANGED <<now, store, config, prev, nref, ncalls>>

RequestThreads ==
    /\ \E t \in Threads, d \in ThreadDelays : do_GET(t, d)
    /\ UNCHANGED <<twin, outside>>

RefreshThreads ==
    /\ \E t \in Threads, find_raises \in BOOLEAN :
          /\ IsFresh \/ ~USE_MONGODB \/ find_raises \/ RecentRecords(RESTORE_WINDOW) = {}
          /\ refresh_cache(t, find_raises)
    /\ UNCHANGED <<twin, outside>>

RestoreThreads ==
    /\ \E t \in Threads : begin_restore(t)
    /\ UNCHANGED <<twin, outside>>

AttemptThreads ==
    /\ \E t \in Threads, oc \in ThreadOutcomes :
          oc.kind # "ok" /\ fetch_attempt(t, oc, {})
    /\ UNCHANGED <<twin, outside>>

SweepThreads ==
    /\ \E t \in Threads, oc \in ThreadOutcomes : begin_sweep(t, oc)
    /\ UNCHANGED <<twin, outside>>

\* the mirror accepts every write here; a failing write is part of Spec
UpsertThreads ==
    /\ \E t \in Threads, s \in CRYPTO_SYMBOLS : upsert_step(t, s, FALSE)
    /\ UNCHANGED <<twin, outside>>

FinishThreads ==
    /\ \E t \in Threads : finish(t)
    /\ UNCHANGED <<twin, outside>>

ExitThreads ==
    /\ \E t \in Threads : exit_thread(t)
    /\ UNCHANGED <<twin, outside>>

NextThreads ==
    \/ RequestThreads \/ RefreshThreads \/ RestoreThreads \/ AttemptThreads
    \/ SweepThreads \/ UpsertThreads \/ FinishThreads \/ ExitThreads

SpecThreads == InitThreads /\ [][NextThreads]_vars



(* ---------------------------------------------------------------------- *)
(* Properties                                                             *)
(* ---------------------------------------------------------------------- *)
\* refresh_cache() has returned in thread t and do_GET has not yet routed
Returned(t) == th[t].pc = "route"

\* thread t is inside refresh_cache() or has just left it
InCall(t) == th[t].pc \in {"attempt", "route"}

\* the cache was fresh when thread t entered refresh_cache()
EntryFresh(t) == th[t].entry.time - th[t].entry.lcu < CACHE_DURATION

\* a cooldown was running when thread t entered
EntryCooldown(t) == th[t].entry.time < th[t].entry.rlu

RECURSIVE SleepSum(_)
SleepSum(s) == IF s = <<>> THEN 0 ELSE s[1][2] + SleepSum(Tail(s))

\* C1: against an upstream that answers every attempt with 429, one refresh_cache()
\* call on a stale cache makes exactly one upstream call (the 429 ends the loop).
C1_Always429OneCall ==
    \A t \in Threads :
        Returned(t) /\ th[t].seen = {"rate_limited"} => th[t].calls = 1

\* C2: fetch_crypto_data entered during a cooldown makes no upstream call and
\* refresh_cache() returns false (the mirror did not restore anything).
C2_CooldownNoCalls ==
    \A t \in Threads :
        InCall(t) /\ ~EntryFresh(t) /\ EntryCooldown(t) /\ th[t].how # "restored" =>
            /\ Returned(t)
            /\ th[t].calls = 0
            /\ th[t].ret = FALSE

C2_Witness ==
    \E t \in Threads :
        /\ Returned(t) /\ ~EntryFresh(t) /\ EntryCooldown(t)
        /\ th[t].how = "cooldown" /\ th[t].calls = 0 /\ ~th[t].ret
        /\ prev.valid /\ prev.calls > 0

\* C3: a refresh_cache() call that obtains no data (it returns false, or is still
\* retrying) has changed no entry of crypto_cache, nor of the mirror.
C3_FailedRefreshKeepsCache ==
    \A t \in Threads :
        (th[t].pc = "attempt" \/ (Returned(t) /\ ~th[t].ret)) =>
            /\ crypto_cache = th[t].entry.cache
            /\ current_prices = th[t].entry.mirror

C3_Witness ==
    \E t \in Threads :
        /\ Returned(t) /\ ~th[t].ret /\ th[t].how = "exhausted"
        /\ DOMAIN crypto_cache = CRYPTO_SYMBOLS
        /\ crypto_cache = th[t].entry.cache

\* C4: calling refresh_cache() twice within CACHE_DURATION seconds makes at most one
\* upstream call in total, whatever the upstream answers to the first call.
C4_TwoCallsOneUpstreamCall ==
    \A t \in Threads :
        /\ Returned(t) /\ prev.valid /\ ~th[t].forced
        /\ th[t].entry.time - prev.entered < CACHE_DURATION
        => prev.calls + th[t].calls <= 1

\* C4 (amended): when the first of two refresh_cache() calls set last_cache_update
\* (it fetched or restored), no forced reset lies between them and the second is
\* entered less than CACHE_DURATION seconds after the first, the second call makes
\* no upstream call, so the pair makes no more calls than the first made alone,
\* which is at most RETRY_ATTEMPTS.
C4_SecondCallAfterUpdateIsFree ==
    \A t \in Threads :
        /\ InCall(t) /\ prev.valid /\ ~th[t].forced
        /\ prev.how \in {"processed", "restored"}
        /\ th[t].entry.time - prev.entered < CACHE_DURATION
        => /\ Returned(t)
           /\ th[t].how = "fresh"
           /\ th[t].ret
           /\ th[t].calls = 0
           /\ prev.calls + th[t].calls <= RETRY_ATTEMPTS

C4_Witness ==
    \E t \in Threads :
        /\ Returned(t) /\ prev.valid /\ ~th[t].forced
        /\ prev.how = "processed" /\ prev.calls > 1
        /\ th[t].entry.time - prev.entered < CACHE_DURATION
        /\ th[t].how = "fresh" /\ th[t].calls = 0

\* C5: refresh_cache() entered with now - last_cache_update < CACHE_DURATION returns
\* true with no upstream call and no read of the mirror, and leaves crypto_cache,
\* last_cache_update and rate_limit_until as they were; two requests 1 second apart
\* after one successful fetch call the upstream exactly once in total.
C5_FreshIsNoOp ==
    \A t \in Threads :
        /\ (InCall(t) /\ EntryFresh(t) =>
               /\ Returned(t)
               /\ th[t].ret
               /\ th[t].calls = 0
               /\ th[t].mongo_reads = 0
               /\ crypto_cache = th[t].entry.cache
               /\ last_cache_update = th[t].entry.lcu
               /\ rate_limit_until = th[t].entry.rlu
               /\ current_prices = th[t].entry.mirror)
        /\ (/\ InCall(t) /\ prev.valid /\ ~th[t].forced
            /\ prev.how = "processed" /\ prev.calls = 1
            /\ th[t].entry.time - prev.finished = 1
            => Returned(t) /\ prev.calls + th[t].calls = 1)

C5_Witness ==
    \E t \in Threads :
        /\ USE_MONGODB /\ DOMAIN current_prices # {}
        /\ Returned(t) /\ EntryFresh(t) /\ ~th[t].forced
        /\ prev.valid /\ prev.how = "processed" /\ prev.calls = 1
        /\ th[t].entry.time - prev.finished = 1
        /\ th[t].calls = 0 /\ th[t].mongo_reads = 0 /\ th[t].ret

\* C6: after a live fetch, last_cache_update is set only if at least one record was
\* written, and refresh_cache() returns true exactly when one was written.
C6_UpdateOnlyWhenWritten ==
    \A t \in Threads :
        Returned(t) /\ th[t].how = "processed" =>
            /\ (th[t].ret <=> th[t].stored # {})
            /\ (last_cache_update # th[t].entry.lcu => th[t].stored # {})

\* C7: every record process_crypto_data stores came from an upstream entry whose
\* price is present and not null.
C7_StoredHasPrice ==
    \A t \in Threads :
        Returned(t) /\ th[t].how = "processed" =>
            \A s \in th[t].stored :
                s \in DOMAIN crypto_cache => th[t].data[s].price[1] = "num"

\* C8: for every upstream entry of a tracked symbol with a price, the stored record
\* has that price, and its change_percent_24h, volume and market_cap each equal the
\* upstream value when one is given and 0 when it is omitted or null; the mirror
\* holds the same record unless its write failed.
C8_OptionalFieldsDefaultToZero ==
    \A t \in Threads :
        Returned(t) /\ th[t].how = "processed" =>
            \A s \in (DOMAIN th[t].data) \cap CRYPTO_SYMBOLS :
                LET e == th[t].data[s]
                    OrZero(v) == IF v[1] \in {"absent", "null"} THEN 0 ELSE v[2]
                IN  e.price[1] = "num" =>
                        /\ s \in DOMAIN crypto_cache
                        /\ crypto_cache[s].symbol = s
                        /\ crypto_cache[s].price = e.price[2]
                        /\ crypto_cache[s].change_percent_24h = OrZero(e.percent_change_24h)
                        /\ crypto_cache[s].volume = OrZero(e.volume_24h)
                        /\ crypto_cache[s].market_cap = OrZero(e.market_cap)
                        /\ (USE_MONGODB =>
                               \/ DictRestrict(current_prices, {s}) = DictRestrict(crypto_cache, {s})
                               \/ DictRestrict(current_prices, {s}) = DictRestrict(th[t].entry.mirror, {s}))

C8_Witness ==
    \E t \in Threads :
        /\ Returned(t) /\ th[t].how = "processed"
        /\ th[t].data = [s \in {"BTC"} |-> RawEntry(Num(50000), Num(25), Absent, Absent)]
        /\ crypto_cache["BTC"].price = 50000
        /\ crypto_cache["BTC"].change_percent_24h = 25
        /\ crypto_cache["BTC"].volume = 0
        /\ crypto_cache["BTC"].market_cap = 0

\* C9: one invocation of fetch_crypto_data makes at most RETRY_ATTEMPTS upstream
\* calls and then ends; against an upstream that only fails transiently it returns
\* failure after exactly RETRY_ATTEMPTS calls.
C9_AtMostRetryAttemptsCalls ==
    \A t \in Threads :
        /\ th[t].calls <= RETRY_ATTEMPTS
        /\ (th[t].pc = "attempt" => th[t].attempt < RETRY_ATTEMPTS /\ th[t].calls = th[t].attempt)
        /\ (Returned(t) /\ th[t].seen = {"transient"} =>
               /\ ~th[t].ret
               /\ th[t].how = "exhausted"
               /\ th[t].calls = RETRY_ATTEMPTS)

C9_Witness ==
    \E t \in Threads :
        /\ Returned(t) /\ th[t].seen = {"transient"}
        /\ RETRY_ATTEMPTS = DEFAULT_RETRY_ATTEMPTS
        /\ th[t].calls = DEFAULT_RETRY_ATTEMPTS
        /\ ~th[t].ret

C11_TransientFailuresUseAllAttempts ==
    \A t \in Threads :
        /\ Returned(t) /\ th[t].calls > 0
        /\ th[t].seen \subseteq {"transient", "api_error"}
        => ~th[t].ret /\ th[t].calls = RETRY_ATTEMPTS

\* C12: once set, last_cache_update never decreases, whatever operation runs.
C12_LastCacheUpdateMonotonic ==
    [][last_cache_update # 0 => last_cache_update' >= last_cache_update]_vars

\* C13: for a tracked symbol absent from the mirror and from crypto_cache, the
\* single-symbol lookup answers RateLimited with the seconds remaining during a
\* cooldown and DataUnavailable otherwise.
C13_LookupDistinguishesRateLimited ==
    \A t \in Threads, s \in CRYPTO_SYMBOLS, find_raises \in BOOLEAN :
        /\ Returned(t)
        /\ (find_raises => USE_MONGODB)
        /\ s \notin DOMAIN crypto_cache
        /\ (USE_MONGODB => s \notin DOMAIN current_prices)
        => LET r == Response(t, <<"/api/crypto/", s>>, find_raises)
           IN  IF now < rate_limit_until
               THEN r.status = 429 /\ r.retry_after = rate_limit_until - now
               ELSE r.status \in {404, 503} /\ r.kind \in {"no_data", "unavailable"}

\* the requests that list every record
ListPaths == { <<"/api/prices", "">>, <<"/api/crypto", "">> }

\* some tier holds a record: crypto_cache, or the mirror when it is enabled
SomeTierHolds == DOMAIN crypto_cache # {} \/ (USE_MONGODB /\ DOMAIN current_prices # {})

\* the mirror answers the list query with at least one row of the last 30 minutes
MirrorYieldsRecent(find_raises) ==
    /\ USE_MONGODB
    /\ ~find_raises
    /\ \E s \in DOMAIN current_prices : now - current_prices[s].timestamp <= LISTALL_WINDOW

\* C14: GET /api/prices and /api/crypto answer 200 with an empty array when no tier
\* holds any record and there is no cooldown.
C14_EmptyStoreAnswers200 ==
    \A t \in Threads, path \in ListPaths, find_raises \in BOOLEAN :
        /\ Returned(t) /\ (find_raises => USE_MONGODB)
        /\ ~SomeTierHolds
        /\ ~(now < rate_limit_until)
        => LET r == Response(t, path, find_raises)
           IN  r.status = 200 /\ r.kind = "list" /\ r.body = EmptyDict

\* C14 (amended): GET /api/prices and /api/crypto answer 503 with an error body when
\* no tier holds any record and there is no cooldown.
C14_EmptyStoreAnswers503 ==
    \A t \in Threads, path \in ListPaths, find_raises \in BOOLEAN :
        /\ Returned(t) /\ (find_raises => USE_MONGODB)
        /\ ~SomeTierHolds
        /\ ~(now < rate_limit_until)
        => LET r == Response(t, path, find_raises)
           IN  r.status = 503 /\ r.kind = "unavailable" /\ r.body = EmptyDict

C14_Witness ==
    \E t \in Threads :
        /\ Returned(t) /\ ~SomeTierHolds /\ ~(now < rate_limit_until)
        /\ th[t].how = "exhausted"
        /\ Response(t, <<"/api/prices", "">>, FALSE).status = 503

\* C15: GET /api/prices and /api/crypto answer 429 with a non-negative retry-after
\* exactly when no tier holds any record and a cooldown is running; when some tier
\* holds a record they answer 200 with records, also during a cooldown (stated for
\* a mirror that answers the read).
C15_RateLimitedIffNoTierHolds ==
    \A t \in Threads, path \in ListPaths :
        Returned(t) =>
            LET r == Response(t, path, FALSE)
            IN  /\ (r.status = 429 <=> (~SomeTierHolds /\ now < rate_limit_until))
                /\ (r.status = 429 => r.retry_after >= 0)
                /\ (SomeTierHolds => r.status = 200 /\ r.body # EmptyDict)

\* C15 (amended): they answer 429 with a non-negative retry-after exactly when the
\* mirror yields no row of the last 30 minutes (it is disabled, fails, or holds only
\* older rows), crypto_cache is empty and a cooldown is running; when the mirror
\* yields such a row or crypto_cache is not empty they answer 200 with records, also
\* during a cooldown.
C15_RateLimitedIffNothingToServe ==
    \A t \in Threads, path \in ListPaths, find_raises \in BOOLEAN :
        Returned(t) /\ (find_raises => USE_MONGODB) =>
            LET r == Response(t, path, find_raises)
                serves == MirrorYieldsRecent(find_raises) \/ DOMAIN crypto_cache # {}
            IN  /\ (r.status = 429 <=> (~serves /\ now < rate_limit_until))
                /\ (r.status = 429 => r.retry_after >= 0
                                       /\ r.retry_after = rate_limit_until - now)
                /\ (serves => r.status = 200 /\ r.body # EmptyDict)

C15_Witness ==
    \E t \in Threads :
        /\ Returned(t) /\ now < rate_limit_until
        /\ DOMAIN crypto_cache = {}
        /\ USE_MONGODB /\ DOMAIN current_prices # {}
        /\ Response(t, <<"/api/prices", "">>, FALSE).status = 429
        /\ Response(t, <<"/api/prices", "">>, FALSE).retry_after = RATE_LIMIT_COOLDOWN

\* C16: the list is answered from exactly one tier: the mirror when it is enabled,
\* reachable and returns at least one recent row, otherwise crypto_cache; a mirror
\* that fails or has no recent row falls through to crypto_cache without an error;
\* no response mixes records of both tiers.
C16_ListFromOneTier ==
    \A t \in Threads, path \in ListPaths, find_raises \in BOOLEAN :
        Returned(t) /\ (find_raises => USE_MONGODB) =>
            LET r == Response(t, path, find_raises)
            IN  /\ (MirrorYieldsRecent(find_raises) =>
                       /\ r.status = 200 /\ r.tier = "mongo"
                       /\ DOMAIN r.body # {}
                       /\ \A s \in DOMAIN r.body :
                             /\ s \in DOMAIN current_prices
                             /\ r.body[s] = current_prices[s]
                             /\ now - r.body[s].timestamp <= LISTALL_WINDOW
                       /\ \A s \in DOMAIN current_prices :
                             now - current_prices[s].timestamp <= LISTALL_WINDOW
                                 => s \in DOMAIN r.body)
                /\ (~MirrorYieldsRecent(find_raises) /\ DOMAIN crypto_cache # {} =>
                       /\ r.status = 200 /\ r.tier = "memory"
                       /\ r.body = crypto_cache)
                /\ (r.status = 200 => r.tier \in {"mongo", "memory"})

C16_Witness ==
    \E t \in Threads :
        LET r == Response(t, <<"/api/prices", "">>, FALSE)
            f == Response(t, <<"/api/prices", "">>, TRUE)
        IN  /\ Returned(t) /\ USE_MONGODB
            /\ r.tier = "mongo"
            /\ DOMAIN r.body # DOMAIN crypto_cache
            /\ \E s \in DOMAIN crypto_cache : s \notin DOMAIN r.body
            /\ f.status = 200 /\ f.tier = "memory" /\ f.body = crypto_cache

\* C17: the single-symbol lookup uses the tier order and the tier eligibility of the
\* list: lookup(s) is served from the mirror only when the list would be, and when
\* both return a record for s it is the same record.
C17_LookupAgreesWithList ==
    \A t \in Threads, s \in CRYPTO_SYMBOLS, find_raises \in BOOLEAN :
        Returned(t) /\ (find_raises => USE_MONGODB) =>
            LET one == Response(t, <<"/api/crypto/", s>>, find_raises)
                all == Response(t, <<"/api/crypto", "">>, find_raises)
            IN  /\ (one.tier = "mongo" => all.tier = "mongo")
                /\ (one.status = 200 /\ all.status = 200 /\ s \in DOMAIN all.body
                        => one.body[s] = all.body[s])

\* the argument names a tracked asset, by its symbol or by its provider identifier,
\* in any letter case
Resolvable(arg) ==
    \/ \E s \in CRYPTO_SYMBOLS : Upper(arg) = Upper(s)
    \/ \E s \in CRYPTO_SYMBOLS : Upper(arg) = Upper(CRYPTO_NAME_MAP[s])

\* C18: the lookup resolves its argument case-insensitively against the tracked
\* symbols and then against the provider identifiers of the tracked assets; only
\* an argument matching neither gets UnknownSymbol (404).
C18_UnknownOnlyWhenUnresolvable ==
    \A t \in Threads, arg \in LookupArgs, find_raises \in BOOLEAN :
        Returned(t) /\ (find_raises => USE_MONGODB) =>
            LET r == Response(t, <<"/api/crypto/", arg>>, find_raises)
            IN  r.kind = "unknown_symbol" <=> ~Resolvable(arg)

\* C19: when the mirror write of a record raises during a sweep, the record is still
\* put into crypto_cache and stays there, the mirror keeps what it had for that
\* symbol, and the other records of the sweep are processed, in memory and mirror.
C19_MirrorWriteFailureKeepsMemory ==
    \A t \in Threads :
        Returned(t) /\ th[t].how = "processed" =>
            /\ \A s \in th[t].raised :
                  /\ s \in DOMAIN crypto_cache
                  /\ crypto_cache[s].timestamp = now
                  /\ (th[t].data[s].price[1] = "num" =>
                         crypto_cache[s].price = th[t].data[s].price[2])
                  /\ DictRestrict(current_prices, {s}) = DictRestrict(th[t].entry.mirror, {s})
            /\ \A u \in ((DOMAIN th[t].data) \cap CRYPTO_SYMBOLS) \ th[t].raised :
                  th[t].data[u].price[1] # "absent" =>
                      /\ u \in DOMAIN crypto_cache
                      /\ crypto_cache[u].timestamp = now
                      /\ (USE_MONGODB =>
                             u \in DOMAIN current_prices /\ current_prices[u] = crypto_cache[u])
            /\ th[t].ret

C19_Witness ==
    \E t \in Threads :
        /\ Returned(t) /\ th[t].how = "processed" /\ USE_MONGODB
        /\ th[t].raised = {"BTC"}
        /\ DOMAIN th[t].data = {"BTC", "ETH"}
        /\ DOMAIN crypto_cache = {"BTC", "ETH"}
        /\ DOMAIN current_prices = {"BTC", "ETH"}
        /\ crypto_cache["BTC"].price = 60000
        /\ current_prices["BTC"].price = 40000
        /\ crypto_cache["ETH"].timestamp = now
        /\ current_prices["ETH"] = crypto_cache["ETH"]

\* C20: the program whose mirror raises on every operation behaves like the program
\* without the mirror: at every step the same crypto_cache, last_cache_update and
\* rate_limit_until, the same upstream calls and result of refresh_cache(), and
\* the same response to every request.
C20_MirrorDownLikeNoMirror ==
    /\ twin.crypto_cache = crypto_cache
    /\ twin.last_cache_update = last_cache_update
    /\ twin.rate_limit_until = rate_limit_until
    /\ twin.pc = th[1].pc
    /\ twin.calls = th[1].calls
    /\ twin.ret = th[1].ret
    /\ twin.how = th[1].how
    /\ (Returned(1) => \A path \in Paths : Response(1, path, TRUE) = twin_Response(path))

C20_Witness ==
    /\ Returned(1) /\ th[1].how = "processed"
    /\ th[1].raised = {"BTC", "ETH"}
    /\ th[1].mongo_reads = 1
    /\ DOMAIN current_prices = CRYPTO_SYMBOLS
    /\ twin.crypto_cache = crypto_cache
    /\ crypto_cache["BTC"].price = 60000
    /\ current_prices["BTC"].price = 40000
    /\ Response(1, <<"/api/crypto/", "btc">>, TRUE).status = 200
    /\ twin_Response(<<"/api/crypto/", "btc">>).body = DictRestrict(crypto_cache, {"BTC"})

\* the ways refresh_cache() returns, with the boolean each of them gives
Outcomes_of_refresh ==
    [fresh |-> TRUE, restored |-> TRUE, processed |-> TRUE,
     cooldown |-> FALSE, nokey |-> FALSE, api_error |-> FALSE, exhausted |-> FALSE]

\* C21: refresh_cache() never raises to its caller: after any upstream, parsing or
\* mirror failure, in any attempt and in the restore step, the call is still
\* running or has returned a boolean.
C21_RefreshNeverRaises ==
    \A t \in Threads :
        /\ th[t].pc \in {"idle", "refresh", "attempt", "route"}
        /\ (Returned(t) =>
               /\ th[t].how \in DOMAIN Outcomes_of_refresh
               /\ th[t].ret \in BOOLEAN
               /\ th[t].ret = Outcomes_of_refresh[th[t].how])
        /\ (th[t].pc = "attempt" => th[t].how = "none" /\ th[t].calls < RETRY_ATTEMPTS)

C21_Witness ==
    \E t \in Threads :
        /\ Returned(t) /\ USE_MONGODB
        /\ \E s \in DOMAIN th[t].entry.mirror :
              th[t].entry.mirror[s].timestamp >= th[t].entry.time - RESTORE_WINDOW
        /\ ~EntryFresh(t)
        /\ th[t].seen = {"transient", "rate_limited", "ok"}
        /\ th[t].raised # {}
        /\ th[t].ret

\* refresh_cache() was entered on a stale cache, with an API key, after a recorded
\* cooldown deadline had passed, and the mirror did not restore the cache
EntryAfterCooldown(t) ==
    /\ InCall(t)
    /\ ~EntryFresh(t)
    /\ th[t].entry.rlu > 0
    /\ ~EntryCooldown(t)
    /\ CMC_API_KEY
    /\ th[t].how # "restored"

\* C25: a rate limit is recoverable: the first refresh_cache() on a stale cache after
\* the cooldown deadline has passed (API key set, no mirror restore) does not stop at
\* the cooldown check but issues an upstream call, and when the upstream answers with
\* data the records are stored, last_cache_update is set and refresh returns True.
C25_CooldownRecoverable ==
    \A t \in Threads :
        EntryAfterCooldown(t) =>
            /\ th[t].how \notin {"cooldown", "nokey", "fresh"}
            /\ (Returned(t) => th[t].calls >= 1)
            /\ (Returned(t) /\ "ok" \in th[t].seen =>
                   /\ th[t].ret
                   /\ th[t].how = "processed"
                   /\ last_cache_update = now
                   /\ \A s \in th[t].stored :
                         /\ s \in DOMAIN crypto_cache
                         /\ crypto_cache[s] = coin_data(s, th[t].data[s], now))

C25_Witness ==
    \E t \in Threads :
        /\ EntryAfterCooldown(t)
        /\ Returned(t)
        /\ prev.valid /\ ~prev.ret /\ prev.calls >= 1
        /\ th[t].entry.time = th[t].entry.rlu
        /\ th[t].calls = 1
        /\ th[t].how = "processed"
        /\ th[t].stored = {"BTC", "ETH"}
        /\ th[t].ret

\* the mirror rows that were at most an hour old when refresh_cache() was entered
EntryRecent(t) ==
    { s \in DOMAIN th[t].entry.mirror :
         th[t].entry.mirror[s].timestamp >= th[t].entry.time - RESTORE_WINDOW }

C28_HealthAlways200 ==
    \A t \in Threads, find_raises \in BOOLEAN :
        Returned(t) =>
            LET r == Response(t, <<"/health", "">>, find_raises)
            IN  /\ r.status = 200
                /\ r.kind = "health"
                /\ r.cache_status = th[t].ret
                /\ r.retry_after >= 0
                /\ (InCooldown => r.retry_after = rate_limit_until - now)
                /\ (~InCooldown => r.retry_after = 0)

C28_Witness ==
    \E t \in Threads :
        /\ Returned(t) /\ ~th[t].ret
        /\ crypto_cache = EmptyDict
        /\ rate_limit_until > 0 /\ ~InCooldown
        /\ prev.valid /\ prev.ret = FALSE
        /\ Response(t, <<"/health", "">>, FALSE).status = 200
        /\ Response(t, <<"/health", "">>, FALSE).retry_after = 0

\* C29: crypto_cache, last_cache_update and rate_limit_until change only inside
\* refresh_cache(): a step taken while no thread is inside that call (the arrival of
\* a request, the routing of do_GET with the resolution of a list or a lookup, the
\* forced branch before it calls refresh_cache, the response) leaves all three unchanged.
C29_OnlyRefreshMutates ==
    [][(\A t \in Threads : th[t].pc \notin {"refresh", "attempt"}) =>
           UNCHANGED <<crypto_cache, last_cache_update, rate_limit_until>>]_vars

\* thread u is inside the loop of process_crypto_data or of restore_from_mongodb
Sweeping(u) == th[u].pc \in {"sweep", "restore"}

\* crypto_cache as thread u's loop found it, with the records u has written so far
PartOfSweep(u) == DictMerge(th[u].base, DictRestrict(th[u].records, th[u].stored))

\* crypto_cache as thread u's loop leaves it when nobody else writes
AfterSweep(u) == DictMerge(th[u].base, th[u].records)

\* C22: a request thread that lists the store while another thread is inside the write
\* loop of a refresh (and nobody else has written since that loop began) gets, when it
\* is served from memory, the records as they were before the loop or as they are
\* after it, never some symbols of the sweep and not the others.
C22_NoHalfSweepObserved ==
    \A t \in Threads, u \in Threads, find_raises \in BOOLEAN :
        (/\ t # u
         /\ Returned(t)
         /\ Sweeping(u)
         /\ crypto_cache = PartOfSweep(u)
         /\ Response(t, <<"/api/crypto", "">>, find_raises).tier = "memory") =>
            \/ Response(t, <<"/api/crypto", "">>, find_raises).body = th[u].base
            \/ Response(t, <<"/api/crypto", "">>, find_raises).body = AfterSweep(u)

\* C23: when two threads found the same stale cache and both ran the live fetch to its
\* end, crypto_cache is what one of the two fetches alone makes of the cache they
\* found: every record they wrote comes from one and the same upstream answer.
C23_ConcurrentRefreshLikeOne ==
    \A t \in Threads, u \in Threads :
        (/\ t # u
         /\ Returned(t) /\ Returned(u)
         /\ th[t].how = "processed" /\ th[u].how = "processed"
         /\ ~EntryFresh(t) /\ ~EntryFresh(u)
         /\ th[t].entry.cache = th[u].entry.cache
         /\ th[t].entry.lcu = th[u].entry.lcu) =>
            \/ crypto_cache = DictMerge(th[t].entry.cache, th[t].records)
            \/ crypto_cache = DictMerge(th[t].entry.cache, th[u].records)

\* r is a record one run can build for symbol s: a sweep over one upstream answer at
\* one instant, or a row an earlier run of the program left in the mirror
RunRecord(s, r) ==
    \/ \E oc \in ThreadOutcomes :
          /\ oc.kind = "ok"
          /\ s \in StoredSymbols(oc.data)
          /\ r.timestamp \in StartTime .. now
          /\ r = coin_data(s, oc.data[s], r.timestamp)
    \/ \E m \in InitMirrors : s \in DOMAIN m /\ r = m[s]

\* C24: at every instant, also in the middle of a sweep or a restore of another
\* thread, each record of crypto_cache and each record a response carries is the
\* record one run built for that symbol: no reader sees fields of two runs in one record.
C24_RecordsAreWhole ==
    /\ \A s \in DOMAIN crypto_cache : RunRecord(s, crypto_cache[s])
    /\ \A t \in Threads, path \in Paths, find_raises \in BOOLEAN :
          Returned(t) =>
              \A s \in DOMAIN Response(t, path, find_raises).body :
                  RunRecord(s, Response(t, path, find_raises).body[s])

C24_Witness ==
    \E t \in Threads, u \in Threads :
        /\ t # u
        /\ Returned(t)
        /\ th[u].pc = "sweep"
        /\ th[u].stored = {"BTC"}
        /\ DOMAIN crypto_cache = {"BTC", "ETH"}
        /\ DOMAIN th[u].base = {"BTC", "ETH"}
        /\ th[u].base["BTC"] # th[u].records["BTC"]
        /\ crypto_cache["ETH"] # th[u].records["ETH"]
        /\ Response(t, <<"/api/crypto/", "btc">>, TRUE).body["BTC"] = th[u].records["BTC"]
        /\ Response(t, <<"/api/crypto/", "ETH">>, TRUE).body["ETH"] = th[u].base["ETH"]

\* C27: an upsert makes the written record the record of its symbol and leaves the
\* other symbols alone, in memory and in the mirror; writing the record a symbol
\* already has changes nothing: one entry per symbol, the latest written.
C27_UpsertIdempotent ==
    [][\A t \in Threads, s \in CRYPTO_SYMBOLS :
          (Sweeping(t) /\ s \notin th[t].stored /\ s \in th'[t].stored) =>
              /\ s \in DOMAIN crypto_cache'
              /\ crypto_cache'[s] = th[t].records[s]
              /\ DOMAIN crypto_cache' = (DOMAIN crypto_cache) \cup {s}
              /\ \A x \in (DOMAIN crypto_cache) \ {s} : crypto_cache'[x] = crypto_cache[x]
              /\ (s \in DOMAIN crypto_cache /\ crypto_cache[s] = th[t].records[s] =>
                     crypto_cache' = crypto_cache)
              /\ (USE_MONGODB /\ th[t].pc = "sweep" =>
                     /\ current_prices' = upsert(current_prices, s, th[t].records[s])
                     /\ (s \in DOMAIN current_prices
                         /\ current_prices[s] = th[t].records[s] =>
                            current_prices' = current_prices))]_vars

C27_Witness ==
    \E t \in Threads, u \in Threads :
        /\ t # u
        /\ "BTC" \in th[t].stored /\ "BTC" \in th[u].stored
        /\ th[t].pc = "sweep" /\ th[u].pc = "sweep"
        /\ th[t].records["BTC"] = th[u].records["BTC"]
        /\ th[t].base = EmptyDict /\ th[u].base = EmptyDict
        /\ crypto_cache = DictRestrict(th[t].records, {"BTC"})

\* C30: with several request threads, every upstream call is made at or after the
\* cooldown deadline rate_limit_until that was recorded when the call is made.
C30_NoCallBeforeDeadline ==
    [][\A t \in Threads :
          th'[t].calls = th[t].calls + 1 => ~(now' < rate_limit_until)]_vars

\* C31: whenever crypto_cache holds a record for a tracked symbol, the answer to
\* GET /api/crypto is 200 and carries a record for that symbol, also with the mirror
\* enabled and after a failed mirror write.
C31_MemoryIsServed ==
    \A t \in Threads, find_raises \in BOOLEAN :
        Returned(t) =>
            \A s \in (DOMAIN crypto_cache) \cap CRYPTO_SYMBOLS :
                /\ Response(t, <<"/api/crypto", "">>, find_raises).status = 200
                /\ s \in DOMAIN Response(t, <<"/api/crypto", "">>, find_raises).body

\* C35: whenever refresh_cache() has returned True, every record of crypto_cache is
\* younger than CACHE_DURATION seconds.
C35_FreshCacheHasNoOldRecord ==
    \A t \in Threads :
        Returned(t) /\ th[t].ret =>
            \A s \in DOMAIN crypto_cache : now - crypto_cache[s].timestamp < CACHE_DURATION

\* C36: a GET /api/cache/refresh whose forced refresh_cache() starts with an API key
\* and outside a cooldown has made at least one upstream call when it answers (in the
\* refresh at the top of do_GET or in the forced one), and answers 'ok' only when the
\* forced refresh stored an upstream answer.
C36_ForcedRefreshFetches ==
    \A t \in Threads :
        (Returned(t) /\ th[t].forced /\ CMC_API_KEY /\ ~EntryCooldown(t)) =>
            /\ prev.calls + th[t].calls >= 1
            /\ (Response(t, <<"/api/cache/refresh", "">>, FALSE).kind = "refresh_ok" =>
                   th[t].how = "processed")

(* ---------------------------------------------------------------------- *)
(* The mirror is shared. stock-data-server-mongodb opens the same          *)
(* database and collection (crypto_ticker.current_prices, the same         *)
(* default MONGO_URI) and its TwelvedataManager.on_event upserts one row   *)
(* per subscribed symbol there, with a timestamp.                          *)
(* ---------------------------------------------------------------------- *)
\* the symbols stock-data-server-mongodb subscribes to
STOCK_CRYPTO_SYMBOLS == {"BTC-USD", "ETH-USD"}

\* the row on_event leaves for symbol: the filter's symbol and the $set fields
on_event(symbol, price, ts) ==
    [symbol |-> symbol, price |-> price, timestamp |-> ts,
     volume |-> 0, change_percent |-> 0]

\* the crypto server starts next to a peer that wrote a row some seconds ago
InitSharedMirror ==
    /\ now = StartTime
    /\ crypto_cache = EmptyDict
    /\ last_cache_update = 0
    /\ rate_limit_until = 0
    /\ USE_MONGODB = TRUE
    /\ \E age \in {100, 2000} :
          current_prices = [s \in {"BTC-USD"} |-> on_event(s, 40000, StartTime - age)]
    /\ CMC_API_KEY = TRUE
    /\ RETRY_ATTEMPTS = DEFAULT_RETRY_ATTEMPTS
    /\ th = [t \in Threads |-> IdleThread]
    /\ prev = NoPrev
    /\ nref = 0
    /\ ncalls = 0
    /\ twin = InitTwin
    /\ Alone

SpecSharedMirror == InitSharedMirror /\ [][Next]_vars

\* C34: every key of the in-memory store is a tracked symbol, after any sequence
\* of live fetches and mirror restores, so the list served from memory never
\* holds an untracked symbol.
C34_KeysAreTracked ==
    /\ DOMAIN crypto_cache \subseteq CRYPTO_SYMBOLS
    /\ \A find_raises \in BOOLEAN :
          get_all_crypto(find_raises).tier = "memory" =>
              DOMAIN get_all_crypto(find_raises).body \subseteq CRYPTO_SYMBOLS

(* ---------------------------------------------------------------------- *)
(* run_server of the crypto server: the bind loop, the initial            *)
(* refresh_cache() in the main thread, serve_forever                      *)
(* ---------------------------------------------------------------------- *)
\* what "ThreadedHTTPServer(("", PORT), CryptoDataHandler)" does: it binds, or raises
\* OSError with errno 48 (EADDRINUSE of macOS/BSD), OSError with another errno
\* (98 is EADDRINUSE of Linux, 13 is EACCES), or another exception
BindOutcomes == {"bound", "errno_48", "errno_98", "errno_13", "exception"}

ServerStarting == [pc |-> "bind", attempt |-> 0, port |-> PORT, log |-> <<>>]

\* a slip that moves on to the next port after any OSError
after_bind_any_oserror(s, outcome) ==
    LET l == Append(s.log, [port |-> s.port, outcome |-> outcome])
        n == s.attempt + 1
    IN  IF outcome = "bound"
        THEN [s EXCEPT !.pc = "refresh", !.attempt = n, !.log = l]
        ELSE IF outcome \in {"errno_48", "errno_98", "errno_13"}
        THEN [s EXCEPT !.pc = IF n < MAX_PORT_ATTEMPTS THEN "bind" ELSE "returned",
                       !.attempt = n, !.port = s.port + 1, !.log = l]
        ELSE [s EXCEPT !.pc = "raised", !.attempt = n, !.log = l]

\* a slip that tries the same port again
after_bind_same_port(s, outcome) ==
    LET l == Append(s.log, [port |-> s.port, outcome |-> outcome])
        n == s.attempt + 1
    IN  IF outcome = "bound"
        THEN [s EXCEPT !.pc = "refresh", !.attempt = n, !.log = l]
        ELSE IF outcome = "errno_48"
        THEN [s EXCEPT !.pc = IF n < MAX_PORT_ATTEMPTS THEN "bind" ELSE "returned",
                       !.attempt = n, !.log = l]
        ELSE [s EXCEPT !.pc = "raised", !.attempt = n, !.log = l]

\* one iteration of "for attempt in range(MAX_PORT_ATTEMPTS)" up to the outcome of
\* the constructor: on errno 48 "PORT += 1" and the next iteration, or the end of
\* the loop and the return; any other failure is raised again
after_bind(s, outcome) ==
    LET l == Append(s.log, [port |-> s.port, outcome |-> outcome])
        n == s.attempt + 1
    IN  IF outcome = "bound"
        THEN [s EXCEPT !.pc = "refresh", !.attempt = n, !.log = l]
        ELSE IF outcome = "errno_48"
        THEN [s EXCEPT !.pc = IF n < MAX_PORT_ATTEMPTS THEN "bind" ELSE "returned",
                       !.attempt = n, !.port = s.port + 1, !.log = l]
        ELSE [s EXCEPT !.pc = "raised", !.attempt = n, !.log = l]

InitRunServer ==
    /\ now = StartTime
    /\ crypto_cache = EmptyDict
    /\ last_cache_update = 0
    /\ rate_limit_until = 0
    /\ USE_MONGODB \in BOOLEAN
    /\ current_prices \in (IF USE_MONGODB THEN InitMirrors ELSE {EmptyDict})
    /\ CMC_API_KEY \in BOOLEAN
    /\ RETRY_ATTEMPTS = DEFAULT_RETRY_ATTEMPTS
    /\ th = [t \in Threads |-> IdleThread]
    /\ prev = NoPrev
    /\ nref = 0
    /\ ncalls = 0
    /\ twin = InitTwin
    /\ srv = ServerStarting
    /\ stock = StockDown
    /\ td = NoManager

\* the constructor call of one iteration; when it binds, the main thread goes on to
\* "refresh_cache()"
Bind ==
    /\ srv.pc = "bind"
    /\ srv.attempt < MAX_PORT_ATTEMPTS
    /\ \E outcome \in BindOutcomes :
          /\ srv' = after_bind(srv, outcome)
          /\ IF outcome = "bound"
             THEN /\ th' = [th EXCEPT ![1] = [IdleThread EXCEPT !.pc = "refresh"]]
                  /\ nref' = nref + 1
             ELSE UNCHANGED <<th, nref>>
    /\ UNCHANGED <<now, store, config, prev, ncalls, twin, stock, td>>

\* the initial cache population, in the main thread
InitialRefresh ==
    /\ srv.pc = "refresh"
    /\ \E find_raises \in BOOLEAN : refresh_cache(1, find_raises)
    /\ UNCHANGED <<twin, outside>>

InitialAttempt ==
    /\ srv.pc = "refresh"
    /\ \E oc \in Outcomes, write_raises \in MirrorWriteFailures :
          fetch_attempt(1, oc, write_raises)
    /\ UNCHANGED <<twin, outside>>

\* refresh_cache() has returned, whatever it returned: "httpd.serve_forever()"
Serve ==
    /\ srv.pc = "refresh"
    /\ respond(1)
    /\ srv' = [srv EXCEPT !.pc = "serving"]
    /\ UNCHANGED <<twin, stock, td>>

NextRunServer == Bind \/ InitialRefresh \/ InitialAttempt \/ Serve

SpecRunServer == InitRunServer /\ [][NextRunServer]_vars

\* the ports the loop has tried are the consecutive ports from PORT on
ConsecutivePorts == \A i \in 1..Len(srv.log) : srv.log[i].port = PORT + (i - 1)

\* C33: run_server makes at most MAX_PORT_ATTEMPTS bind attempts, on the consecutive
\* ports PORT, PORT + 1, ...; it goes on to a next port only after an
\* address-in-use failure, serves on the first port that binds, and terminates
\* without serving when every attempt has failed.
C33_BindLoop ==
    /\ Len(srv.log) = srv.attempt
    /\ srv.attempt <= MAX_PORT_ATTEMPTS
    /\ ConsecutivePorts
    /\ \A i \in 1..Len(srv.log) : i < Len(srv.log) => srv.log[i].outcome = "errno_48"
    /\ (srv.pc \in {"refresh", "serving"} <=>
           (srv.log # <<>> /\ srv.log[Len(srv.log)].outcome = "bound"))
    /\ (srv.pc \in {"refresh", "serving"} => srv.port = srv.log[Len(srv.log)].port)
    /\ (srv.pc = "bind" => srv.attempt < MAX_PORT_ATTEMPTS)
    /\ (srv.pc = "returned" <=>
           (srv.attempt = MAX_PORT_ATTEMPTS /\ srv.log[MAX_PORT_ATTEMPTS].outcome = "errno_48"))
    /\ (srv.pc = "raised" <=>
           (srv.log # <<>> /\ srv.log[Len(srv.log)].outcome \notin {"bound", "errno_48"}))

\* two ports were in use, the third one bound: the server serves on PORT + 2
C33_Witness_ThirdPort ==
    /\ srv.pc = "serving"
    /\ srv.attempt = 3
    /\ srv.port = PORT + 2

\* every one of the MAX_PORT_ATTEMPTS ports was in use: run_server has returned
C33_Witness_AllInUse ==
    /\ srv.pc = "returned"
    /\ srv.attempt = MAX_PORT_ATTEMPTS

(* ---------------------------------------------------------------------- *)
(* The stock servers: stock-data-server.py (caches only) and              *)
(* stock-data-server-mongodb.py (caches, mirror collection, Twelvedata     *)
(* websocket). One request at a time; time in whole seconds, so the        *)
(* REQUEST_DELAY of 0.2 s between two symbols is not counted.              *)
(* ---------------------------------------------------------------------- *)
StockServers == {"stock-data-server", "stock-data-server-mongodb"}

\* bound: refresh_cache() calls of a stock server in one run
MaxStockRefreshes == 2

\* bound: GET /api/quotes requests in one run
MaxStockRequests == 2

\* bound: websocket events in one run
MaxEvents == 1

\* bound: the depth at which a further call raises RecursionError
\* (sys.getrecursionlimit() is 1000 by default)
RecursionLimit == 5

\* bound: the tracked lists of the two servers, cut to one or two symbols
STOCK_SYMBOLS(server) == IF server = "stock-data-server" THEN <<"SPY">> ELSE <<>>

CRYPTO_SYMBOLS_of(server) ==
    IF server = "stock-data-server" THEN <<"BTC-USD">> ELSE <<"BTC-USD", "ETH-USD">>

STOCK_CACHE_DURATION(server) == IF server = "stock-data-server" THEN 300 ELSE 60

max_retries == 3

RECONNECT_SLEEP == 5

StockPrices == {100, 200}

StockDelays == {1, 301}

\* "symbol.split('-')" on the symbols of the model
split(symbol) ==
    CASE symbol = "BTC-USD" -> <<"BTC", "USD">>
      [] symbol = "ETH-USD" -> <<"ETH", "USD">>
      [] OTHER -> <<symbol>>

\* "any(crypto in symbol.upper() for crypto in ['BTC', 'ETH', 'XRP', 'DOGE']) or
\* '-USD' in symbol.upper()" on the symbols of the model
is_crypto(symbol) == symbol \in {"BTC-USD", "ETH-USD", "BTC", "ETH"}

\* the quote get_stock_data(symbol) returns when yfinance answers with price at t
get_stock_data(symbol, price, t) ==
    [symbol |-> split(symbol)[1], raw_price |-> price, last_updated |-> t]

\* collection.find_one({"symbol": symbol}) under the unique index on symbol
find_one(collection, symbol) ==
    IF symbol \in DOMAIN collection
    THEN [found |-> TRUE, doc |-> collection[symbol]]
    ELSE [found |-> FALSE, doc |-> EmptyDict]

\* collection.update_one({"symbol": symbol}, {"$set": fields}, upsert=True) under the
\* unique index on symbol: the matched document, or a new one built from the filter,
\* gets the fields; the write raises DuplicateKeyError when another document already
\* has the resulting symbol
update_one(collection, symbol, fields) ==
    LET base == IF symbol \in DOMAIN collection THEN collection[symbol]
                ELSE [x \in {"symbol"} |-> symbol]
        doc == DictMerge(base, fields)
        others == DictRestrict(collection, (DOMAIN collection) \ {symbol})
    IN  IF doc.symbol \in DOMAIN others
        THEN [raises |-> TRUE, collection |-> collection]
        ELSE [raises |-> FALSE,
              collection |-> DictMerge(others, [x \in {doc.symbol} |-> doc])]

RefreshOrder(server) == STOCK_SYMBOLS(server) \o CRYPTO_SYMBOLS_of(server)

\* the outcomes of one get_stock_data call: it raises, or yfinance has a price
FetchOutcomes == {[ok |-> FALSE, price |-> 0]} \cup {[ok |-> TRUE, price |-> p] : p \in StockPrices}

\* the top of refresh_cache(): both caches are replaced by empty ones
begin_refresh(s, caller) ==
    [s EXCEPT !.pc = "loop", !.caller = caller, !.i = 1,
              !.before = [stock |-> s.stock_cache, crypto |-> s.crypto_cache],
              !.stock_cache = EmptyDict, !.crypto_cache = EmptyDict,
              !.fetched = {}, !.written = {}, !.failed = {},
              !.nrefresh = s.nrefresh + 1]

\* one iteration of the two loops of refresh_cache(); mirror_down: the mirror cannot
\* be reached and update_one raises for that reason
refresh_step(s, oc, t, mirror_down) ==
    LET symbol == RefreshOrder(s.server)[s.i]
        data == get_stock_data(symbol, oc.price, t)
        in_stock == s.i <= Len(STOCK_SYMBOLS(s.server))
        w == update_one(s.current_collection, symbol, data)
        cached == [s EXCEPT !.i = s.i + 1,
                            !.fetched = @ \cup {symbol},
                            !.stock_cache = IF in_stock
                                            THEN DictMerge(@, [x \in {symbol} |-> data]) ELSE @,
                            !.crypto_cache = IF in_stock THEN @
                                             ELSE DictMerge(@, [x \in {symbol} |-> data])]
    IN  IF ~oc.ok
        THEN [s EXCEPT !.i = s.i + 1]
        ELSE IF ~s.mongo_client
        THEN cached
        ELSE IF mirror_down
        THEN cached
        ELSE IF w.raises
        THEN [cached EXCEPT !.failed = @ \cup {symbol}]
        ELSE [cached EXCEPT !.current_collection = w.collection,
                            !.historical_collection = @ + 1,
                            !.written = @ \cup {symbol}]

\* the loop of GET /api/quotes over STOCK_SYMBOLS + CRYPTO_SYMBOLS: the mirror, the
\* cache, a direct fetch that is cached. The direct fetch, _get_stock_data, takes the
\* last websocket price of the symbol when the manager m is connected and has one;
\* otherwise it asks yfinance, which works for the symbols in direct
quotes(s, m, direct, price, t) ==
    LET order == RefreshOrder(s.server)
        live(symbol) == m.connected /\ symbol \in DOMAIN m.last_prices
        fetch(symbol) == IF live(symbol)
                         THEN get_stock_data(symbol, m.last_prices[symbol].price, t)
                         ELSE get_stock_data(symbol, price, t)
        cache(symbol) == IF is_crypto(symbol) THEN s.crypto_cache ELSE s.stock_cache
        from_mirror(symbol) == s.mongo_client /\ find_one(s.current_collection, symbol).found
        answer(symbol) ==
            IF from_mirror(symbol)
            THEN <<[tier |-> "mirror", for |-> symbol,
                    data |-> find_one(s.current_collection, symbol).doc]>>
            ELSE IF symbol \in DOMAIN cache(symbol)
            THEN <<[tier |-> "cache", for |-> symbol, data |-> cache(symbol)[symbol]]>>
            ELSE IF live(symbol) \/ symbol \in direct
            THEN <<[tier |-> "direct", for |-> symbol, data |-> fetch(symbol)]>>
            ELSE <<>>
        fetched_now(crypto) ==
            { order[k] : k \in { j \in 1..Len(order) :
                  /\ ~from_mirror(order[j])
                  /\ order[j] \notin DOMAIN cache(order[j])
                  /\ (live(order[j]) \/ order[j] \in direct)
                  /\ is_crypto(order[j]) = crypto } }
        add(crypto) == [x \in fetched_now(crypto) |-> fetch(x)]
        all == [k \in 1..2 |-> IF k <= Len(order) THEN answer(order[k]) ELSE <<>>]
        rest == IF Len(order) >= 3 THEN answer(order[3]) ELSE <<>>
    IN  [s EXCEPT !.pc = "serving",
                  !.results = all[1] \o all[2] \o rest,
                  !.stock_cache = DictMerge(@, add(FALSE)),
                  !.crypto_cache = DictMerge(@, add(TRUE))]

\* one call of TwelvedataManager.connect() up to its recursive call or its return
connect(m, connects) ==
    LET reset == [m EXCEPT !.error_count = 0]
    IN  IF connects
        THEN [reset EXCEPT !.connected = TRUE, !.pc = "returned"]
        ELSE IF reset.error_count < max_retries
        THEN [reset EXCEPT !.connected = FALSE,
                           !.error_count = reset.error_count + 1,
                           !.retries = m.retries + 1,
                           !.depth = m.depth + 1,
                           !.pc = IF m.depth + 1 >= RecursionLimit THEN "crashed" ELSE "connect"]
        ELSE [reset EXCEPT !.connected = FALSE, !.pc = "returned"]

\* the crypto server is not running
CryptoDown ==
    /\ crypto_cache = EmptyDict
    /\ last_cache_update = 0
    /\ rate_limit_until = 0
    /\ USE_MONGODB = FALSE
    /\ current_prices = EmptyDict
    /\ CMC_API_KEY = FALSE
    /\ RETRY_ATTEMPTS = DEFAULT_RETRY_ATTEMPTS
    /\ th = [t \in Threads |-> IdleThread]
    /\ prev = NoPrev
    /\ nref = 0
    /\ ncalls = 0
    /\ twin = InitTwin
    /\ srv = [ServerUp EXCEPT !.pc = "down"]

crypto_server == <<crypto_cache, last_cache_update, rate_limit_until, USE_MONGODB,
                   current_prices, CMC_API_KEY, RETRY_ATTEMPTS, th, prev, nref, ncalls,
                   twin, srv>>

InitStock ==
    /\ now = StartTime
    /\ CryptoDown
    /\ \E server \in StockServers, mongo \in BOOLEAN, enabled \in BOOLEAN :
          /\ (server = "stock-data-server" => ~mongo /\ ~enabled)
          /\ stock = [StockDown EXCEPT !.pc = "startup", !.server = server,
                                       !.mongo_client = mongo]
          /\ td = [NoManager EXCEPT !.enabled = enabled]

\* run_server: "refresh_cache()" at startup
StartupRefresh ==
    /\ stock.pc = "startup"
    /\ stock' = begin_refresh(stock, "startup")
    /\ UNCHANGED <<now, crypto_server, td>>

RefreshStep ==
    /\ stock.pc = "loop"
    /\ stock.i <= Len(RefreshOrder(stock.server))
    /\ \E oc \in FetchOutcomes, mirror_down \in BOOLEAN :
          /\ (mirror_down => stock.mongo_client /\ oc.ok)
          /\ stock' = refresh_step(stock, oc, now, mirror_down)
    /\ UNCHANGED <<now, crypto_server, td>>

\* the end of refresh_cache(): "last_cache_update = time.time()"
RefreshEnd ==
    /\ stock.pc = "loop"
    /\ stock.i > Len(RefreshOrder(stock.server))
    /\ stock' = [stock EXCEPT !.pc = "refreshed", !.last_cache_update = now]
    /\ UNCHANGED <<now, crypto_server, td>>

\* refresh_cache() has returned to run_server or to do_GET
AfterRefresh ==
    /\ stock.pc = "refreshed"
    /\ IF stock.caller = "request"
       THEN /\ stock' = [stock EXCEPT !.pc = "answer"]
            /\ UNCHANGED td
       ELSE IF td.enabled
       THEN /\ stock' = [stock EXCEPT !.pc = "connecting"]
            /\ td' = [td EXCEPT !.pc = "connect"]
       ELSE /\ stock' = [stock EXCEPT !.pc = "serving"]
            /\ UNCHANGED td
    /\ UNCHANGED <<now, crypto_server>>

\* "connected = td_manager.connect()": each failed try sleeps RECONNECT_SLEEP seconds
Connect ==
    /\ td.pc = "connect"
    /\ \E connects \in BOOLEAN :
          /\ td' = connect(td, connects)
          /\ now' = IF connects THEN now ELSE now + RECONNECT_SLEEP
    /\ UNCHANGED <<stock, crypto_server>>

\* connect() has returned: the HTTP server starts. A RecursionError leaves
\* run_server instead.
StartServing ==
    /\ stock.pc = "connecting"
    /\ td.pc = "returned"
    /\ stock' = [stock EXCEPT !.pc = "serving"]
    /\ UNCHANGED <<now, td, crypto_server>>

\* a well-formed websocket event for one of the subscribed symbols
OnEvent ==
    /\ stock.pc = "serving"
    /\ td.connected
    /\ td.events < MaxEvents
    /\ \E symbol \in STOCK_CRYPTO_SYMBOLS, price \in StockPrices :
          LET row == on_event(symbol, price, now)
              w == update_one(stock.current_collection, symbol,
                              [x \in (DOMAIN row) \ {"symbol"} |-> row[x]])
          IN  /\ stock' = IF stock.mongo_client /\ ~w.raises
                          THEN [stock EXCEPT !.current_collection = w.collection]
                          ELSE stock
              /\ td' = [td EXCEPT !.events = @ + 1, !.error_count = 0,
                                   !.last_prices =
                                       DictMerge(@, [x \in {symbol} |->
                                                        [price |-> price, timestamp |-> now]])]
    /\ UNCHANGED <<now, crypto_server>>

\* GET /api/quotes without a symbols parameter, up to the staleness test
Quotes ==
    /\ stock.pc = "serving"
    /\ stock.nreq < MaxStockRequests
    /\ \E d \in StockDelays :
          /\ now' = now + d
          /\ (now' - stock.last_cache_update > STOCK_CACHE_DURATION(stock.server) =>
                 stock.nrefresh < MaxStockRefreshes)
          /\ stock' = IF now' - stock.last_cache_update > STOCK_CACHE_DURATION(stock.server)
                      THEN [begin_refresh(stock, "request") EXCEPT !.nreq = @ + 1]
                      ELSE [stock EXCEPT !.pc = "answer", !.nreq = @ + 1]
    /\ UNCHANGED <<crypto_server, td>>

\* GET /api/quotes after the staleness test: the answer
Answer ==
    /\ stock.pc = "answer"
    /\ \E direct \in SUBSET STOCK_CRYPTO_SYMBOLS, price \in StockPrices :
          stock' = quotes(stock, td, direct, price, now)
    /\ UNCHANGED <<now, crypto_server, td>>

NextStock ==
    \/ StartupRefresh
    \/ RefreshStep
    \/ RefreshEnd
    \/ AfterRefresh
    \/ Connect
    \/ StartServing
    \/ OnEvent
    \/ Quotes
    \/ Answer

SpecStock == InitStock /\ [][NextStock]_vars

\* C32: in both stock servers a refresh_cache() in which every per-symbol fetch
\* fails does not evict: every quote cached before it is still in stock_cache or
\* crypto_cache after it.
C32_FailedRefreshKeepsQuotes ==
    (stock.pc = "refreshed" /\ stock.fetched = {}) =>
        /\ \A symbol \in DOMAIN stock.before.stock : symbol \in DOMAIN stock.stock_cache
        /\ \A symbol \in DOMAIN stock.before.crypto : symbol \in DOMAIN stock.crypto_cache

\* C37: TwelvedataManager.connect terminates: when the connection fails on every
\* try, connect() has made at most max_retries retries and returns with connected
\* false.
C37_ConnectGivesUp ==
    /\ td.retries <= max_retries
    /\ td.pc # "crashed"
    /\ (td.pc = "returned" => (td.connected \/ td.retries = max_retries))

\* C38: the mirror write-through of stock-data-server-mongodb round-trips: once
\* refresh_cache() has written the quote of a configured symbol to
\* current_collection without error, the lookup by that symbol finds that quote,
\* and no refresh fails on a second document for the symbol.
C38_MirrorRoundTrip ==
    /\ \A symbol \in stock.written :
          (stock.pc \in {"loop", "refreshed"}) =>
              /\ find_one(stock.current_collection, symbol).found
              /\ find_one(stock.current_collection, symbol).doc = stock.crypto_cache[symbol]
    /\ stock.failed = {}

====
